---------------------------- MODULE Spec2Model ----------------------------
(***************************************************************************)
(* Model of samcli/lib/utils/resource_trigger.py: the ResourceTrigger      *)
(* hierarchy that turns a template file or a template resource into        *)
(* PathHandlers (watch targets) and gates the change callback.             *)
(*                                                                         *)
(* Python values are modelled as follows.                                  *)
(*   str        a sequence of one-character strings ("" is << >>)          *)
(*   dict       a function from its keys to its values ({} is << >>); a    *)
(*              value that may be None is an Optional                      *)
(*   Optional   None is << >>, a value x that is there is Some(x) = <<x>>  *)
(*   object     a record of its attributes; None (<< >>) where there is    *)
(*              no object                                                  *)
(*   Path       the sequence of the components of an absolute path         *)
(*   callable   a reference: the caller's callback, or the bound method    *)
(*              _validator_wrapper of the trigger                          *)
(*   raise      operations return an outcome record whose field "raise"    *)
(*              names the exception raised, or NoError                     *)
(* The interpreter is part of the state: re.escape and PurePath.match do   *)
(* not give the same results on every Python the module runs on.           *)
(***************************************************************************)
EXTENDS Integers, Sequences, FiniteSets, TLC

VARIABLES
    args,           \* the arguments the trigger's constructor was called with
    trigger,        \* the constructed trigger object, None before / on failure
    raised,         \* exception raised by the last operation, or NoError
    lastOp,         \* name of the last operation performed
    calls,          \* collaborator / strategy calls made by the constructor, in order
    validators,     \* DefinitionValidator instances built so far (their paths)
    targets,        \* the list returned by the last get_path_handlers()
    deliveries,     \* what the observer delivered: [via, event, valid]
    validateCalls,  \* number of validate() calls made
    cbCalls,        \* invocations of the caller's callback: [cb, event]
    file_path_str,  \* argument of the path-handler factory under test
    handler,        \* the PathHandler the factory returned, None before
    probe,          \* src_path of the event dispatched to handler's event handler
    dispatched,     \* did the event handler pass the event on to on_any_event
    python          \* the Python the module runs on: one of Pythons

trigVars == <<args, trigger, raised, lastOp, calls, validators, targets,
              deliveries, validateCalls, cbCalls>>
pathVars == <<file_path_str, handler, probe, dispatched, python>>
vars == <<args, trigger, raised, lastOp, calls, validators, targets,
          deliveries, validateCalls, cbCalls,
          file_path_str, handler, probe, dispatched, python>>

-----------------------------------------------------------------------------
(* Bounds of the model *)

\* events delivered to one trigger's handlers
MaxEvents == 2
\* length of the path strings given to the path-handler factories
MaxPathLen == 3
\* length of the paths, below the watched directory, of the events tried on
\* a directory handler
MaxProbeLen == 2

-----------------------------------------------------------------------------
(* Python values *)

\* Optional[T]: None, or Some(x) for a value x of T
None == << >>
Some(x) == <<x>>
Val(o) == o[1]

NL == "\n"
\* the vertical tab, chr(11)
VT == ""
EmptyStr == << >>
EmptyDict == << >>

\* "not o" for an Optional[str] or Optional[dict]: None, "" and {} are falsy
Falsy(o) == o = None \/ Val(o) = << >>

\* d.get(k, default)
dict_get(d, k, default) == IF k \in DOMAIN d THEN d[k] ELSE default

\* the exceptions of the module
ResourceNotFound == "ResourceNotFound"
FunctionNotFound == "FunctionNotFound"
MissingCodeUri == "MissingCodeUri"
MissingDefinitionUri == "MissingDefinitionUri"
NoError == "NoError"
\* raised by None.get(...)
AttributeError == "AttributeError"

\* the interpreters, by what they do where they differ: Python 3.6; Python
\* 3.7 to 3.11 (re.escape escapes the special characters only); Python 3.12
\* and later (PurePath.match no longer lets a wildcard match the root)
Pythons == {"3.6", "3.7", "3.12"}
Errors == {ResourceNotFound, FunctionNotFound, MissingCodeUri, MissingDefinitionUri}

-----------------------------------------------------------------------------
(* pathlib.Path and re, as get_single_file_path_handler and                *)
(* get_dir_path_handler use them.  The file system holds no symbolic       *)
(* links, so resolve() is the lexical normalisation of the path against    *)
(* the working directory.                                                  *)

\* os.getcwd(), as path components
Cwd == << <<"w">> >>

\* s.split("/")
RECURSIVE SplitFrom(_, _, _, _)
SplitFrom(s, i, cur, acc) ==
    IF i > Len(s) THEN Append(acc, cur)
    ELSE IF s[i] = "/" THEN SplitFrom(s, i + 1, << >>, Append(acc, cur))
    ELSE SplitFrom(s, i + 1, Append(cur, s[i]), acc)

Split(s) == SplitFrom(s, 1, << >>, << >>)

\* walk the names of a path from a base: "" and "." are skipped, ".." drops
\* the last component (the root is its own parent)
RECURSIVE Walk(_, _, _)
Walk(base, names, i) ==
    IF i > Len(names) THEN base
    ELSE IF names[i] = << >> \/ names[i] = <<".">> THEN Walk(base, names, i + 1)
    ELSE IF names[i] = <<".", ".">>
         THEN Walk(IF base = << >> THEN base ELSE SubSeq(base, 1, Len(base) - 1),
                   names, i + 1)
    ELSE Walk(Append(base, names[i]), names, i + 1)

\* Path(s).resolve(): the components of the absolute, normalised path
Path_resolve(s) ==
    Walk(IF Len(s) > 0 /\ s[1] = "/" THEN << >> ELSE Cwd, Split(s), 1)

\* Path.parent
Path_parent(p) == IF p = << >> THEN p ELSE SubSeq(p, 1, Len(p) - 1)

\* str(Path)
RECURSIVE JoinFrom(_, _)
JoinFrom(p, i) ==
    IF i > Len(p) THEN << >> ELSE <<"/">> \o p[i] \o JoinFrom(p, i + 1)

Path_str(p) == IF p = << >> THEN <<"/">> ELSE JoinFrom(p, 1)

\* re._special_chars_map (Python 3.7 and later): the characters re.escape()
\* puts a backslash before
SpecialChars ==
    {"(", ")", "[", "]", "{", "}", "?", "*", "+", "-", "|", "^", "$", "\\",
     ".", "&", "~", "#", " ", "\t", "\n", "\r", VT, "\f"}

\* re._alphanum_str (Python 3.6): the characters re.escape() leaves alone
Alphanum ==
    {"_", "a", "b", "c", "d", "e", "f", "g", "h", "i", "j", "k", "l", "m",
     "n", "o", "p", "q", "r", "s", "t", "u", "v", "w", "x", "y", "z",
     "A", "B", "C", "D", "E", "F", "G", "H", "I", "J", "K", "L", "M",
     "N", "O", "P", "Q", "R", "S", "T", "U", "V", "W", "X", "Y", "Z",
     "0", "1", "2", "3", "4", "5", "6", "7", "8", "9"}

\* does re.escape() of the interpreter py put a backslash before c
Escaped(py, c) == IF py = "3.6" THEN c \notin Alphanum ELSE c \in SpecialChars

\* re.escape(s) on the interpreter py, for a string without chr(0) (a path
\* holds none)
RECURSIVE re_escape_on(_, _)
re_escape_on(py, s) ==
    IF s = << >> THEN << >>
    ELSE (IF Escaped(py, Head(s)) THEN <<"\\", Head(s)>> ELSE <<Head(s)>>)
         \o re_escape_on(py, Tail(s))

\* re.escape(s)
re_escape(s) == re_escape_on(python, s)

\* Pattern.match(s) from position j of s with the pattern read from position
\* i, for the patterns the handlers are built with: "^" and "$" anchors,
\* "\c" for the character c, "." for any character but a newline, and any
\* other character for itself.  Without re.MULTILINE "$" matches at the end
\* of the string and just before a newline that ends the string.
RECURSIVE MatchFrom(_, _, _, _)
MatchFrom(p, i, s, j) ==
    IF i > Len(p) THEN TRUE
    ELSE IF p[i] = "^" THEN j = 1 /\ MatchFrom(p, i + 1, s, j)
    ELSE IF p[i] = "$"
         THEN (j = Len(s) + 1 \/ (j = Len(s) /\ s[j] = NL))
              /\ MatchFrom(p, i + 1, s, j)
    ELSE IF p[i] = "\\"
         THEN i < Len(p) /\ j <= Len(s) /\ s[j] = p[i + 1]
              /\ MatchFrom(p, i + 2, s, j + 1)
    ELSE IF p[i] = "."
         THEN j <= Len(s) /\ s[j] # NL /\ MatchFrom(p, i + 1, s, j + 1)
    ELSE j <= Len(s) /\ s[j] = p[i] /\ MatchFrom(p, i + 1, s, j + 1)

\* re.compile(pattern).match(s)
re_match(pattern, s) == MatchFrom(pattern, 1, s, 1)

-----------------------------------------------------------------------------
(* Callables *)

\* the callbacks a caller may supply (OnChangeCallback objects)
Callbacks == {[ref |-> "callback", name |-> "cb1"], [ref |-> "callback", name |-> "cb2"]}

\* the bound method self._validator_wrapper of a trigger
ValidatorWrapper == [ref |-> "_validator_wrapper", name |-> "self"]

\* FileSystemEventHandler.on_any_event, which a new event handler has: it does nothing
DefaultOnAnyEvent == [ref |-> "on_any_event", name |-> "FileSystemEventHandler"]

\* Optional[FileSystemEvent] values
Events == {None, Some("e1")}

-----------------------------------------------------------------------------
(* ResourceTrigger: the two PathHandler factories *)

\* RegexMatchingEventHandler(regexes=, ignore_regexes=, ignore_directories=, case_sensitive=)
RegexMatchingEventHandler(regexes, ignore_regexes, ignore_directories, case_sensitive) ==
    [class |-> "RegexMatchingEventHandler",
     regexes |-> regexes,
     ignore_regexes |-> ignore_regexes,
     ignore_directories |-> ignore_directories,
     case_sensitive |-> case_sensitive,
     on_any_event |-> DefaultOnAnyEvent]

\* PatternMatchingEventHandler(patterns=, ignore_patterns=, ignore_directories=, case_sensitive=)
PatternMatchingEventHandler(patterns, ignore_patterns, ignore_directories, case_sensitive) ==
    [class |-> "PatternMatchingEventHandler",
     patterns |-> patterns,
     ignore_patterns |-> ignore_patterns,
     ignore_directories |-> ignore_directories,
     case_sensitive |-> case_sensitive,
     on_any_event |-> DefaultOnAnyEvent]

\* PathHandler(path=, event_handler=, recursive=, static_folder=): the hooks
\* self_create and self_delete are None until a trigger sets them
PathHandler(path, event_handler, recursive, static_folder) ==
    [path |-> path,
     event_handler |-> event_handler,
     recursive |-> recursive,
     static_folder |-> static_folder,
     self_create |-> None,
     self_delete |-> None]

\* the value of PathHandler.static_folder when the argument is not given
PathHandler_static_folder_default == FALSE

\* the regular expression of a single-file handler: f"^{re.escape(str(file_path))}$"
single_file_regex(file_path) == <<"^">> \o re_escape(Path_str(file_path)) \o <<"$">>

\* ResourceTrigger.get_single_file_path_handler(file_path_str)
get_single_file_path_handler(path_str) ==
    LET file_path == Path_resolve(path_str)
        folder_path == Path_parent(file_path)
        file_handler == RegexMatchingEventHandler(
                            <<single_file_regex(file_path)>>, << >>, TRUE, TRUE)
    IN  PathHandler(folder_path, file_handler, FALSE, PathHandler_static_folder_default)

\* a directory factory that builds a target which is not recursive
get_dir_path_handler_flat(path_str) ==
    LET dir_path == Path_resolve(path_str)
        file_handler == PatternMatchingEventHandler(<< <<"*">> >>, << >>, FALSE, TRUE)
    IN  PathHandler(dir_path, file_handler, FALSE, TRUE)

\* ResourceTrigger.get_dir_path_handler(dir_path_str)
get_dir_path_handler(path_str) ==
    LET dir_path == Path_resolve(path_str)
        file_handler == PatternMatchingEventHandler(<< <<"*">> >>, << >>, FALSE, TRUE)
    IN  PathHandler(dir_path, file_handler, TRUE, TRUE)

\* RegexMatchingEventHandler.dispatch(event): does the handler pass an event
\* with this src_path on to on_any_event
RegexDispatch(h, src_path, is_directory) ==
    /\ ~(h.ignore_directories /\ is_directory)
    /\ ~(\E k \in 1..Len(h.ignore_regexes) : re_match(h.ignore_regexes[k], src_path))
    /\ \E k \in 1..Len(h.regexes) : re_match(h.regexes[k], src_path)

\* the names of PurePosixPath(s): its components but the root, with empty
\* components and "." dropped
PurePath_tail(s) ==
    LET IsName(n) == n # << >> /\ n # <<".">>
    IN  SelectSeq(Split(s), IsName)

\* PurePosixPath(s).parts: the root, if s starts with a slash ("//" when it
\* starts with exactly two), then the names of s but "" and "."
PurePath_parts(s) ==
    LET root == IF Len(s) >= 2 /\ s[1] = "/" /\ s[2] = "/" /\ ~(Len(s) >= 3 /\ s[3] = "/")
                THEN << <<"/", "/">> >>
                ELSE IF Len(s) >= 1 /\ s[1] = "/" THEN << <<"/">> >>
                ELSE << >>
    IN  root \o PurePath_tail(s)

\* PurePosixPath(s).match("*") on the interpreter py.  Up to Python 3.11 the
\* pattern's one part is compared with the last part of the path, the root
\* when the path is the root, and "*" matches any part; from Python 3.12 it
\* is compared with the last name of the path, and the root has none.  The
\* empty path and "." have no part at all.
PurePath_match_star_on(py, s) ==
    IF py = "3.12" THEN PurePath_tail(s) # << >> ELSE PurePath_parts(s) # << >>

\* PurePosixPath(s).match("*")
PurePath_match_star(s) == PurePath_match_star_on(python, s)

\* PatternMatchingEventHandler.dispatch(event), for the handler of lines 86-88
\* (the one pattern "*", no ignore pattern): does the handler pass an event
\* with this src_path on to on_any_event
PatternDispatch(h, src_path, is_directory) ==
    /\ ~(h.ignore_directories /\ is_directory)
    /\ PurePath_match_star(src_path)

-----------------------------------------------------------------------------
(* The collaborators: the stacks and the three lookups *)

\* resource identifiers
Ids == {"A", "B"}

\* path strings that resources and callers name
Str_s == <<"s">>
Str_d == <<"d">>
Str_l == <<"l">>
Str_f == <<"f", ".", "j">>
Str_t == <<"t", ".", "y">>

\* the Properties dicts of a resource, as far as the triggers read them
PropertiesDicts ==
    {EmptyDict} \cup {[DefinitionUri |-> v] : v \in {None, Some(EmptyStr), Some(Str_f)}}

\* resource dicts: Type is always there, Properties may be missing, and may
\* be there as None (a template with "Properties:" and nothing under it)
ResourceDicts ==
    {[Type |-> "AWS::Serverless::Resource"]}
    \cup {[Type |-> "AWS::Serverless::Resource", Properties |-> None]}
    \cup {[Type |-> "AWS::Serverless::Resource", Properties |-> Some(p)] : p \in PropertiesDicts}

\* Function objects, as far as the triggers read them
Functions ==
    [codeuri : {None, Some(EmptyStr), Some(Str_s)},
     metadata : {None, Some(EmptyDict),
                 Some([Dockerfile |-> Some(Str_f)]),
                 Some([DockerContext |-> Some(EmptyStr)]),
                 Some([DockerContext |-> Some(Str_d)])}]

\* LayerVersion objects, as far as the triggers read them
Layers == [codeuri : {None, Some(EmptyStr), Some(Str_l)}]

\* what the stacks hold under one identifier: what each of the three lookups
\* finds there (the resource dict, the function provider's Function, the
\* layer provider's LayerVersion), each of them possibly nothing
StackEntries ==
    [resource : {None} \cup {Some(r) : r \in ResourceDicts},
     function : {None} \cup {Some(f) : f \in Functions},
     layer : {None} \cup {Some(l) : l \in Layers}]

\* an identifier under which the stacks hold nothing
NoEntry == [resource |-> None, function |-> None, layer |-> None]

\* the stacks a caller may supply: they hold something under the identifier A
\* at most
StackLists == {[i \in Ids |-> IF i = "A" THEN e ELSE NoEntry] : e \in StackEntries}

\* get_resource_by_id(stacks, identifier)
get_resource_by_id(stacks, id) == stacks[id].resource

\* SamFunctionProvider(stacks).get(str(identifier))
SamFunctionProvider_get(stacks, id) == stacks[id].function

\* SamLayerProvider(stacks).get(str(identifier))
SamLayerProvider_get(stacks, id) == stacks[id].layer

\* DefinitionValidator(Path(file)): the validator object, bound to its file
DefinitionValidator(file) == [path |-> file]

-----------------------------------------------------------------------------
(* The constructors.  Each returns [obj, raise, calls, validators]: the     *)
(* object built (None when the constructor raises), the exception raised,   *)
(* the lookups and strategies it called in order, and the validators built. *)

\* a TemplateTrigger.__init__ that leaves the validator to be built later
TemplateTrigger_init_lazy(template_file, on_template_change) ==
    [obj |-> [kind |-> "TemplateTrigger",
              _template_file |-> template_file,
              _on_template_change |-> on_template_change,
              _validator |-> None],
     raise |-> NoError,
     calls |-> << >>,
     validators |-> << >>]

\* TemplateTrigger.__init__(template_file, on_template_change)
TemplateTrigger_init(template_file, on_template_change) ==
    [obj |-> [kind |-> "TemplateTrigger",
              _template_file |-> template_file,
              _on_template_change |-> on_template_change,
              _validator |-> DefinitionValidator(template_file)],
     raise |-> NoError,
     calls |-> <<"DefinitionValidator">>,
     validators |-> <<DefinitionValidator(template_file)>>]

\* a CodeResourceTrigger.__init__ without the check of the lookup's result
CodeResourceTrigger_init_unchecked(kind, id, stacks, on_code_change) ==
    LET resource == get_resource_by_id(stacks, id)
    IN  [obj |-> [kind |-> kind,
                  _resource |-> IF resource = None THEN EmptyDict ELSE Val(resource),
                  _on_code_change |-> on_code_change],
         raise |-> NoError,
         calls |-> <<"get_resource_by_id">>, validators |-> << >>]

\* CodeResourceTrigger.__init__(resource_identifier, stacks, on_code_change)
CodeResourceTrigger_init(kind, id, stacks, on_code_change) ==
    LET resource == get_resource_by_id(stacks, id)
    IN  IF Falsy(resource)
        THEN [obj |-> None, raise |-> ResourceNotFound,
              calls |-> <<"get_resource_by_id">>, validators |-> << >>]
        ELSE [obj |-> [kind |-> kind,
                       _resource |-> Val(resource),
                       _on_code_change |-> on_code_change],
              raise |-> NoError,
              calls |-> <<"get_resource_by_id">>, validators |-> << >>]

\* a LambdaZipCodeTrigger._get_code_uri that reads the image build context
LambdaZipCodeTrigger_get_code_uri_context(function) ==
    IF Falsy(function.metadata) THEN None
    ELSE dict_get(Val(function.metadata), "DockerContext", None)

\* LambdaZipCodeTrigger._get_code_uri()
LambdaZipCodeTrigger_get_code_uri(function) == function.codeuri

\* a LambdaImageCodeTrigger._get_code_uri that falls back to the function's codeuri
LambdaImageCodeTrigger_get_code_uri_fallback(function) ==
    IF Falsy(function.metadata) THEN function.codeuri
    ELSE dict_get(Val(function.metadata), "DockerContext", function.codeuri)

\* LambdaImageCodeTrigger._get_code_uri()
LambdaImageCodeTrigger_get_code_uri(function) ==
    IF Falsy(function.metadata) THEN None
    ELSE dict_get(Val(function.metadata), "DockerContext", None)

\* self._get_code_uri(), by the class of self
get_code_uri(kind, function) ==
    IF kind = "LambdaZipCodeTrigger" THEN LambdaZipCodeTrigger_get_code_uri(function)
    ELSE LambdaImageCodeTrigger_get_code_uri(function)

\* a LambdaFunctionCodeTrigger.__init__ that raises the generic error for a missing function
LambdaFunctionCodeTrigger_init_generic(kind, id, stacks, on_code_change) ==
    LET base == CodeResourceTrigger_init(kind, id, stacks, on_code_change)
        function == SamFunctionProvider_get(stacks, id)
        calls1 == Append(base.calls, "SamFunctionProvider.get")
        code_uri == get_code_uri(kind, Val(function))
        calls2 == Append(calls1, "_get_code_uri")
    IN  IF base.raise # NoError THEN base
        ELSE IF Falsy(function)
        THEN [obj |-> None, raise |-> ResourceNotFound,
              calls |-> calls1, validators |-> << >>]
        ELSE IF Falsy(code_uri)
        THEN [obj |-> None, raise |-> MissingCodeUri,
              calls |-> calls2, validators |-> << >>]
        ELSE [obj |-> [kind |-> kind,
                       _resource |-> base.obj._resource,
                       _on_code_change |-> base.obj._on_code_change,
                       _function |-> Val(function),
                       _code_uri |-> Val(code_uri)],
              raise |-> NoError, calls |-> calls2, validators |-> << >>]

\* LambdaFunctionCodeTrigger.__init__(function_identifier, stacks, on_code_change)
LambdaFunctionCodeTrigger_init(kind, id, stacks, on_code_change) ==
    LET base == CodeResourceTrigger_init(kind, id, stacks, on_code_change)
        function == SamFunctionProvider_get(stacks, id)
        calls1 == Append(base.calls, "SamFunctionProvider.get")
        code_uri == get_code_uri(kind, Val(function))
        calls2 == Append(calls1, "_get_code_uri")
    IN  IF base.raise # NoError THEN base
        ELSE IF Falsy(function)
        THEN [obj |-> None, raise |-> FunctionNotFound,
              calls |-> calls1, validators |-> << >>]
        ELSE IF Falsy(code_uri)
        THEN [obj |-> None, raise |-> MissingCodeUri,
              calls |-> calls2, validators |-> << >>]
        ELSE [obj |-> [kind |-> kind,
                       _resource |-> base.obj._resource,
                       _on_code_change |-> base.obj._on_code_change,
                       _function |-> Val(function),
                       _code_uri |-> Val(code_uri)],
              raise |-> NoError, calls |-> calls2, validators |-> << >>]

\* a LambdaLayerCodeTrigger.__init__ that raises a type-specific error for a missing layer
LambdaLayerCodeTrigger_init_specific(id, stacks, on_code_change) ==
    LET base == CodeResourceTrigger_init("LambdaLayerCodeTrigger", id, stacks, on_code_change)
        layer == SamLayerProvider_get(stacks, id)
        calls1 == Append(base.calls, "SamLayerProvider.get")
        code_uri == Val(layer).codeuri
    IN  IF base.raise # NoError THEN base
        ELSE IF Falsy(layer)
        THEN [obj |-> None, raise |-> FunctionNotFound,
              calls |-> calls1, validators |-> << >>]
        ELSE IF Falsy(code_uri)
        THEN [obj |-> None, raise |-> MissingCodeUri,
              calls |-> calls1, validators |-> << >>]
        ELSE [obj |-> [kind |-> "LambdaLayerCodeTrigger",
                       _resource |-> base.obj._resource,
                       _on_code_change |-> base.obj._on_code_change,
                       _layer |-> Val(layer),
                       _code_uri |-> Val(code_uri)],
              raise |-> NoError, calls |-> calls1, validators |-> << >>]

\* LambdaLayerCodeTrigger.__init__(layer_identifier, stacks, on_code_change)
LambdaLayerCodeTrigger_init(id, stacks, on_code_change) ==
    LET base == CodeResourceTrigger_init("LambdaLayerCodeTrigger", id, stacks, on_code_change)
        layer == SamLayerProvider_get(stacks, id)
        calls1 == Append(base.calls, "SamLayerProvider.get")
        code_uri == Val(layer).codeuri
    IN  IF base.raise # NoError THEN base
        ELSE IF Falsy(layer)
        THEN [obj |-> None, raise |-> ResourceNotFound,
              calls |-> calls1, validators |-> << >>]
        ELSE IF Falsy(code_uri)
        THEN [obj |-> None, raise |-> MissingCodeUri,
              calls |-> calls1, validators |-> << >>]
        ELSE [obj |-> [kind |-> "LambdaLayerCodeTrigger",
                       _resource |-> base.obj._resource,
                       _on_code_change |-> base.obj._on_code_change,
                       _layer |-> Val(layer),
                       _code_uri |-> Val(code_uri)],
              raise |-> NoError, calls |-> calls1, validators |-> << >>]

\* APIGatewayCodeTrigger.__init__(rest_api_identifier, stacks, on_code_change)
APIGatewayCodeTrigger_init(id, stacks, on_code_change) ==
    LET base == CodeResourceTrigger_init("APIGatewayCodeTrigger", id, stacks, on_code_change)
        properties == dict_get(base.obj._resource, "Properties", Some(EmptyDict))
        definition_file == dict_get(Val(properties), "DefinitionUri", None)
    IN  IF base.raise # NoError THEN base
        ELSE IF properties = None
        THEN [obj |-> None, raise |-> AttributeError,
              calls |-> base.calls, validators |-> << >>]
        ELSE IF Falsy(definition_file)
        THEN [obj |-> None, raise |-> MissingDefinitionUri,
              calls |-> base.calls, validators |-> << >>]
        ELSE [obj |-> [kind |-> "APIGatewayCodeTrigger",
                       _resource |-> base.obj._resource,
                       _on_code_change |-> base.obj._on_code_change,
                       _definition_file |-> Val(definition_file),
                       _validator |-> DefinitionValidator(Val(definition_file))],
              raise |-> NoError,
              calls |-> Append(base.calls, "DefinitionValidator"),
              validators |-> <<DefinitionValidator(Val(definition_file))>>]

-----------------------------------------------------------------------------
(* get_path_handlers() and the handlers it wires.  get_path_handlers        *)
(* returns [ret, raise]; a call of a handler returns [validate, forwarded,  *)
(* raise]: the number of validate() calls it made, the calls of the         *)
(* caller's callback it made, and the exception raised.                     *)

\* the caller's callback is called with the event
CallCallback(cb, event) ==
    [validate |-> 0, forwarded |-> <<[cb |-> cb, event |-> event]>>, raise |-> NoError]

\* a _validator_wrapper that calls validate() and forwards whatever it returns
TemplateTrigger_validator_wrapper_ungated(self, event, valid) ==
    [CallCallback(self._on_template_change, event) EXCEPT !.validate = 1]

\* TemplateTrigger._validator_wrapper(event); valid is what validate() returns
TemplateTrigger_validator_wrapper(self, event, valid) ==
    IF valid
    THEN [CallCallback(self._on_template_change, event) EXCEPT !.validate = 1]
    ELSE [validate |-> 1, forwarded |-> << >>, raise |-> NoError]

\* an APIGatewayCodeTrigger._validator_wrapper that raises when validation fails
APIGatewayCodeTrigger_validator_wrapper_raising(self, event, valid) ==
    IF valid
    THEN [CallCallback(self._on_code_change, event) EXCEPT !.validate = 1]
    ELSE [validate |-> 1, forwarded |-> << >>, raise |-> MissingDefinitionUri]

\* APIGatewayCodeTrigger._validator_wrapper(event); valid is what validate() returns
APIGatewayCodeTrigger_validator_wrapper(self, event, valid) ==
    IF valid
    THEN [CallCallback(self._on_code_change, event) EXCEPT !.validate = 1]
    ELSE [validate |-> 1, forwarded |-> << >>, raise |-> NoError]

\* fn(event), for a callable fn held by a PathHandler of the trigger self
Invoke(self, fn, event, valid) ==
    IF fn.ref = "callback" THEN CallCallback(fn, event)
    ELSE IF fn.ref = "_validator_wrapper"
    THEN IF self.kind = "TemplateTrigger"
         THEN TemplateTrigger_validator_wrapper(self, event, valid)
         ELSE APIGatewayCodeTrigger_validator_wrapper(self, event, valid)
    ELSE [validate |-> 0, forwarded |-> << >>, raise |-> NoError]

\* a get_path_handlers() that returns no target
TemplateTrigger_get_path_handlers_empty(self) ==
    [ret |-> << >>, raise |-> NoError]

\* TemplateTrigger.get_path_handlers()
TemplateTrigger_get_path_handlers(self) ==
    LET file_path_handler == get_single_file_path_handler(self._template_file)
    IN  [ret |-> <<[file_path_handler EXCEPT
                      !.event_handler.on_any_event = ValidatorWrapper]>>,
         raise |-> NoError]

\* LambdaFunctionCodeTrigger.get_path_handlers()
LambdaFunctionCodeTrigger_get_path_handlers(self) ==
    LET dir_path_handler == get_dir_path_handler(self._code_uri)
    IN  [ret |-> <<[dir_path_handler EXCEPT
                      !.self_create = self._on_code_change,
                      !.self_delete = self._on_code_change,
                      !.event_handler.on_any_event = self._on_code_change]>>,
         raise |-> NoError]

\* a LambdaLayerCodeTrigger.get_path_handlers that leaves self_delete unset
LambdaLayerCodeTrigger_get_path_handlers_no_delete(self) ==
    LET dir_path_handler == get_dir_path_handler(self._code_uri)
    IN  [ret |-> <<[dir_path_handler EXCEPT
                      !.self_create = self._on_code_change,
                      !.event_handler.on_any_event = self._on_code_change]>>,
         raise |-> NoError]

\* LambdaLayerCodeTrigger.get_path_handlers()
LambdaLayerCodeTrigger_get_path_handlers(self) ==
    LET dir_path_handler == get_dir_path_handler(self._code_uri)
    IN  [ret |-> <<[dir_path_handler EXCEPT
                      !.self_create = self._on_code_change,
                      !.self_delete = self._on_code_change,
                      !.event_handler.on_any_event = self._on_code_change]>>,
         raise |-> NoError]

\* APIGatewayCodeTrigger.get_path_handlers()
APIGatewayCodeTrigger_get_path_handlers(self) ==
    LET file_path_handler == get_single_file_path_handler(self._definition_file)
    IN  [ret |-> <<[file_path_handler EXCEPT
                      !.event_handler.on_any_event = ValidatorWrapper]>>,
         raise |-> NoError]

\* self.get_path_handlers(), by the class of self
get_path_handlers(self) ==
    IF self.kind = "TemplateTrigger" THEN TemplateTrigger_get_path_handlers(self)
    ELSE IF self.kind \in {"LambdaZipCodeTrigger", "LambdaImageCodeTrigger"}
    THEN LambdaFunctionCodeTrigger_get_path_handlers(self)
    ELSE IF self.kind = "LambdaLayerCodeTrigger"
    THEN LambdaLayerCodeTrigger_get_path_handlers(self)
    ELSE APIGatewayCodeTrigger_get_path_handlers(self)

-----------------------------------------------------------------------------
(* The life of one trigger: it is constructed once, by one of the five      *)
(* concrete classes; the observer then calls get_path_handlers() and the    *)
(* handlers of the PathHandlers it got.                                     *)

Init ==
    /\ args = None
    /\ trigger = None
    /\ raised = NoError
    /\ lastOp = "none"
    /\ calls = << >>
    /\ validators = << >>
    /\ targets = << >>
    /\ deliveries = << >>
    /\ validateCalls = 0
    /\ cbCalls = << >>
    /\ file_path_str = EmptyStr
    /\ handler = None
    /\ probe = None
    /\ dispatched = FALSE
    /\ python \in Pythons

\* the constructor returned or raised: out is its outcome
Constructed(a, out) ==
    /\ args' = a
    /\ trigger' = out.obj
    /\ raised' = out.raise
    /\ calls' = out.calls
    /\ validators' = validators \o out.validators
    /\ lastOp' = "__init__"
    /\ UNCHANGED <<targets, deliveries, validateCalls, cbCalls>>
    /\ UNCHANGED pathVars

\* TemplateTrigger(template_file, on_template_change)
NewTemplateTrigger ==
    /\ lastOp = "none"
    /\ \E f \in {Str_t, <<"/">> \o Str_t}, cb \in Callbacks :
           Constructed([kind |-> "TemplateTrigger", template_file |-> f, cb |-> cb],
                       TemplateTrigger_init(f, cb))

\* LambdaZipCodeTrigger(function_identifier, stacks, on_code_change)
NewLambdaZipCodeTrigger ==
    /\ lastOp = "none"
    /\ \E id \in Ids, stacks \in StackLists, cb \in Callbacks :
           Constructed([kind |-> "LambdaZipCodeTrigger", id |-> id, stacks |-> stacks, cb |-> cb],
                       LambdaFunctionCodeTrigger_init("LambdaZipCodeTrigger", id, stacks, cb))

\* LambdaImageCodeTrigger(function_identifier, stacks, on_code_change)
NewLambdaImageCodeTrigger ==
    /\ lastOp = "none"
    /\ \E id \in Ids, stacks \in StackLists, cb \in Callbacks :
           Constructed([kind |-> "LambdaImageCodeTrigger", id |-> id, stacks |-> stacks, cb |-> cb],
                       LambdaFunctionCodeTrigger_init("LambdaImageCodeTrigger", id, stacks, cb))

\* LambdaLayerCodeTrigger(layer_identifier, stacks, on_code_change)
NewLambdaLayerCodeTrigger ==
    /\ lastOp = "none"
    /\ \E id \in Ids, stacks \in StackLists, cb \in Callbacks :
           Constructed([kind |-> "LambdaLayerCodeTrigger", id |-> id, stacks |-> stacks, cb |-> cb],
                       LambdaLayerCodeTrigger_init(id, stacks, cb))

\* APIGatewayCodeTrigger(rest_api_identifier, stacks, on_code_change)
NewAPIGatewayCodeTrigger ==
    /\ lastOp = "none"
    /\ \E id \in Ids, stacks \in StackLists, cb \in Callbacks :
           Constructed([kind |-> "APIGatewayCodeTrigger", id |-> id, stacks |-> stacks, cb |-> cb],
                       APIGatewayCodeTrigger_init(id, stacks, cb))

\* trigger.get_path_handlers()
GetPathHandlers ==
    /\ trigger # None
    /\ LET out == get_path_handlers(trigger)
       IN  /\ targets' = out.ret
           /\ raised' = out.raise
    /\ lastOp' = "get_path_handlers"
    /\ UNCHANGED <<args, trigger, calls, validators, deliveries, validateCalls, cbCalls>>
    /\ UNCHANGED pathVars

\* the observer calls the callable fn of a PathHandler with an event;
\* valid is what validate() returns if fn calls it
Deliver(via, fn, event, valid) ==
    /\ Len(deliveries) < MaxEvents
    /\ LET out == Invoke(trigger, fn, event, valid)
       IN  /\ deliveries' = Append(deliveries,
                                   [via |-> via, event |-> event,
                                    valid |-> IF out.validate > 0 THEN Some(valid) ELSE None])
           /\ validateCalls' = validateCalls + out.validate
           /\ cbCalls' = cbCalls \o out.forwarded
           /\ raised' = out.raise
    /\ lastOp' = via
    /\ UNCHANGED <<args, trigger, calls, validators, targets>>
    /\ UNCHANGED pathVars

\* path_handler.event_handler.on_any_event(event)
OnAnyEvent ==
    \E k \in 1..Len(targets), event \in Events, valid \in BOOLEAN :
        Deliver("on_any_event", targets[k].event_handler.on_any_event, event, valid)

\* path_handler.self_create(event), when the watched folder is created
SelfCreate ==
    \E k \in 1..Len(targets), event \in Events, valid \in BOOLEAN :
        /\ targets[k].self_create # None
        /\ Deliver("self_create", targets[k].self_create, event, valid)

\* path_handler.self_delete(event), when the watched folder is deleted
SelfDelete ==
    \E k \in 1..Len(targets), event \in Events, valid \in BOOLEAN :
        /\ targets[k].self_delete # None
        /\ Deliver("self_delete", targets[k].self_delete, event, valid)

Next ==
    \/ NewTemplateTrigger
    \/ NewLambdaZipCodeTrigger
    \/ NewLambdaImageCodeTrigger
    \/ NewLambdaLayerCodeTrigger
    \/ NewAPIGatewayCodeTrigger
    \/ GetPathHandlers
    \/ OnAnyEvent
    \/ SelfCreate
    \/ SelfDelete

Spec == Init /\ [][Next]_vars

-----------------------------------------------------------------------------
(* The factories on their own: one is given a path string, and the event    *)
(* handler of the PathHandler it returns is sent events.                    *)

\* the characters of the path strings tried
PathChars == {"/", "a", ".", NL}

\* the strings over PathChars of length n or less
StrsUpTo(n) == UNION {[1..m -> PathChars] : m \in 0..n}

\* the strings that differ from s by one character changed, added or removed
OneCharEdits(s) ==
    ({[s EXCEPT ![i] = c] : i \in 1..Len(s), c \in PathChars}
     \cup {SubSeq(s, 1, i) \o <<c>> \o SubSeq(s, i + 1, Len(s)) :
               i \in 0..Len(s), c \in PathChars}
     \cup {SubSeq(s, 1, i - 1) \o SubSeq(s, i + 1, Len(s)) : i \in 1..Len(s)})
    \ {s}

PathInit ==
    /\ args = None
    /\ trigger = None
    /\ raised = NoError
    /\ lastOp = "none"
    /\ calls = << >>
    /\ validators = << >>
    /\ targets = << >>
    /\ deliveries = << >>
    /\ validateCalls = 0
    /\ cbCalls = << >>
    /\ file_path_str \in StrsUpTo(MaxPathLen)
    /\ handler = None
    /\ probe = None
    /\ dispatched = FALSE
    /\ python \in Pythons

\* what a call of a factory leaves alone
factoryFrame == <<args, trigger, raised, calls, validators, targets,
                  deliveries, validateCalls, cbCalls>>

\* ResourceTrigger.get_single_file_path_handler(file_path_str)
BuildSingleFileHandler ==
    /\ args = None
    /\ handler = None
    /\ handler' = get_single_file_path_handler(file_path_str)
    /\ lastOp' = "get_single_file_path_handler"
    /\ UNCHANGED <<file_path_str, probe, dispatched, python>>
    /\ UNCHANGED factoryFrame

\* handler.event_handler.dispatch(event), for an event on the watched file,
\* or on a path one character away from it
DispatchProbe ==
    /\ handler # None
    /\ lastOp = "get_single_file_path_handler"
    /\ \E q \in {Path_str(Path_resolve(file_path_str))}
                \cup OneCharEdits(Path_str(Path_resolve(file_path_str))),
          d \in BOOLEAN :
            /\ probe' = Some([src_path |-> q, is_directory |-> d])
            /\ dispatched' = RegexDispatch(handler.event_handler, q, d)
    /\ UNCHANGED <<file_path_str, handler, python>>
    /\ UNCHANGED trigVars

PathNext ==
    \/ BuildSingleFileHandler
    \/ DispatchProbe

PathSpec == PathInit /\ [][PathNext]_vars

-----------------------------------------------------------------------------
(* The directory factory on its own, in the same way.                       *)

\* ResourceTrigger.get_dir_path_handler(dir_path_str)
BuildDirHandler ==
    /\ args = None
    /\ handler = None
    /\ handler' = get_dir_path_handler(file_path_str)
    /\ lastOp' = "get_dir_path_handler"
    /\ UNCHANGED <<file_path_str, probe, dispatched, python>>
    /\ UNCHANGED factoryFrame

\* the paths tried on the handler built for the string path_str: the resolved
\* directory, the strings of MaxProbeLen characters or less as they are
\* (relative paths, and absolute ones), and the same below the directory,
\* named as it was given and as it was resolved
DirProbes(path_str) ==
    LET dir == Path_str(Path_resolve(path_str))
    IN  {dir} \cup StrsUpTo(MaxProbeLen)
              \cup {dir \o <<"/">> \o r : r \in StrsUpTo(MaxProbeLen)}
              \cup {path_str \o <<"/">> \o r : r \in StrsUpTo(MaxProbeLen)}

\* handler.event_handler.dispatch(event), for an event on a file or on a
\* directory, of a handler that get_dir_path_handler built; one event a run:
\* dispatch keeps nothing from one event to the next
DispatchDirProbe ==
    /\ handler # None
    /\ lastOp = "get_dir_path_handler"
    /\ probe = None
    /\ \E q \in DirProbes(file_path_str), d \in BOOLEAN :
            /\ probe' = Some([src_path |-> q, is_directory |-> d])
            /\ dispatched' = PatternDispatch(handler.event_handler, q, d)
    /\ UNCHANGED <<file_path_str, handler, python>>
    /\ UNCHANGED trigVars

DirNext ==
    \/ BuildDirHandler
    \/ DispatchDirProbe

-----------------------------------------------------------------------------
(* Triggers and the directory factory together: a run is the life of one    *)
(* trigger, or the trial of the directory factory on a path string.         *)

\* a step of a trigger's life, in a run where no factory was called directly
TriggerStep == handler = None /\ file_path_str = EmptyStr /\ Next

FullNext == TriggerStep \/ DirNext

FullSpec == PathInit /\ [][FullNext]_vars

-----------------------------------------------------------------------------
(* Properties *)

FunctionKinds == {"LambdaZipCodeTrigger", "LambdaImageCodeTrigger"}
CodeKinds == FunctionKinds \cup {"LambdaLayerCodeTrigger", "APIGatewayCodeTrigger"}
TemplateLikeKinds == {"TemplateTrigger", "APIGatewayCodeTrigger"}

\* a constructor has been called, for a trigger of one of the kinds K
ConstructorCalled(K) == args # None /\ args.kind \in K

\* what the three lookups find for the constructor's identifier
FoundResource == get_resource_by_id(args.stacks, args.id)
FoundFunction == SamFunctionProvider_get(args.stacks, args.id)
FoundLayer == SamLayerProvider_get(args.stacks, args.id)

\* the callback calls that forward, in order, every delivery (all = TRUE) or
\* the deliveries whose validation returned true (all = FALSE)
RECURSIVE ForwardedOf(_, _, _)
ForwardedOf(ds, cb, all) ==
    IF ds = << >> THEN << >>
    ELSE (IF all \/ Head(ds).valid = Some(TRUE)
          THEN <<[cb |-> cb, event |-> Head(ds).event]>> ELSE << >>)
         \o ForwardedOf(Tail(ds), cb, all)

\* C1: for a TemplateTrigger or an APIGatewayCodeTrigger every event delivered
\* to the wrapper causes exactly one validate() call, and the callback is
\* called exactly for the events whose validation returned true, once each,
\* in order, with the event that was delivered.
C1_ValidateThenForward ==
    (trigger # None /\ trigger.kind \in TemplateLikeKinds) =>
        /\ validateCalls = Len(deliveries)
        /\ \A i \in 1..Len(deliveries) :
               deliveries[i].via = "on_any_event" /\ deliveries[i].valid # None
        /\ cbCalls = ForwardedOf(deliveries, args.cb, FALSE)

C1_Witness ==
    /\ trigger # None /\ trigger.kind = "TemplateTrigger"
    /\ Len(deliveries) = 2
    /\ deliveries[1].valid = Some(FALSE)
    /\ deliveries[2] = [via |-> "on_any_event", event |-> Some("e1"), valid |-> Some(TRUE)]
    /\ cbCalls = <<[cb |-> args.cb, event |-> Some("e1")]>>

\* C2: a CodeResourceTrigger subtype constructed with an identifier that the
\* stacks do not hold fails with ResourceNotFound (FunctionNotFound at most on
\* the function path) and leaves nothing behind: no trigger, no validator, no
\* watch target, no callback call.
C2_AbsentIdentifierFails ==
    (ConstructorCalled(CodeKinds) /\ FoundResource = None) =>
        /\ \/ raised = ResourceNotFound
           \/ (args.kind \in FunctionKinds /\ raised = FunctionNotFound)
        /\ trigger = None
        /\ validators = << >>
        /\ "DefinitionValidator" \notin {calls[i] : i \in 1..Len(calls)}
        /\ targets = << >>
        /\ cbCalls = << >> /\ validateCalls = 0

C2_Witness ==
    /\ ConstructorCalled({"APIGatewayCodeTrigger"})
    /\ args.id = "A"
    /\ FoundResource = None /\ FoundFunction # None /\ FoundLayer # None
    /\ raised = ResourceNotFound

\* C3: the constructor of a function trigger raises the error of the first
\* failing check, in the order resource lookup (ResourceNotFound), function
\* lookup (FunctionNotFound), code location (MissingCodeUri); the code-location
\* strategy is called only after a successful function lookup; construction
\* succeeds iff the three checks pass.
C3_FunctionChecksInOrder ==
    ConstructorCalled(FunctionKinds) =>
        LET located == get_code_uri(args.kind, Val(FoundFunction))
            asked == {i \in 1..Len(calls) : calls[i] = "_get_code_uri"}
        IN  /\ raised = IF FoundResource = None THEN ResourceNotFound
                        ELSE IF FoundFunction = None THEN FunctionNotFound
                        ELSE IF located = None \/ located = Some(EmptyStr)
                             THEN MissingCodeUri
                        ELSE NoError
            /\ (trigger # None) <=> (raised = NoError)
            /\ asked # {} =>
                   /\ FoundResource # None /\ FoundFunction # None
                   /\ asked = {3} /\ calls[2] = "SamFunctionProvider.get"
            /\ (FoundResource # None /\ FoundFunction # None) => asked # {}

C3_Witness ==
    /\ ConstructorCalled(FunctionKinds)
    /\ FoundResource # None /\ FoundFunction # None
    /\ raised = MissingCodeUri
    /\ calls = <<"get_resource_by_id", "SamFunctionProvider.get", "_get_code_uri">>

\* the one directory target that a trigger with the code location uri and the
\* callback cb gives: the resolved directory, watched recursively as a static
\* folder, any path matching, the three hooks being cb itself
DirTargetOf(uri, cb) ==
    [path |-> Path_resolve(uri),
     event_handler |-> [class |-> "PatternMatchingEventHandler",
                        patterns |-> << <<"*">> >>,
                        ignore_patterns |-> << >>,
                        ignore_directories |-> FALSE,
                        case_sensitive |-> TRUE,
                        on_any_event |-> cb],
     recursive |-> TRUE,
     static_folder |-> TRUE,
     self_create |-> cb,
     self_delete |-> cb]

\* C4: for every resource that the generic lookup resolves, the constructor
\* of an APIGatewayCodeTrigger raises MissingDefinitionUri, and no other
\* error, whenever the resource declares no DefinitionUri: it has no
\* Properties, or Properties holds no mapping, or the mapping has no
\* DefinitionUri, or DefinitionUri is empty; otherwise it succeeds, and
\* get_path_handlers() returns one single-file target for the definition
\* file whose on_any_event is the validate-then-forward wrapper.
C4_DefinitionUriRequired ==
    (ConstructorCalled({"APIGatewayCodeTrigger"}) /\ FoundResource # None) =>
        LET res == Val(FoundResource)
            declared == /\ "Properties" \in DOMAIN res
                        /\ res.Properties # None
                        /\ "DefinitionUri" \in DOMAIN Val(res.Properties)
                        /\ Val(res.Properties).DefinitionUri \notin {None, Some(EmptyStr)}
        IN  IF ~declared
            THEN raised = MissingDefinitionUri /\ trigger = None /\ validators = << >>
            ELSE /\ raised = NoError
                 /\ trigger # None
                 /\ trigger._definition_file = Val(Val(res.Properties).DefinitionUri)
                 /\ targets # << >> =>
                        /\ Len(targets) = 1
                        /\ targets[1].recursive = FALSE
                        /\ targets[1].path = Path_parent(Path_resolve(Str_f))
                        /\ Path_str(targets[1].path) = <<"/", "w">>
                        /\ targets[1].event_handler.class = "RegexMatchingEventHandler"
                        /\ Len(targets[1].event_handler.regexes) = 1
                        /\ re_match(targets[1].event_handler.regexes[1],
                                    <<"/", "w", "/", "f", ".", "j">>)
                        /\ ~re_match(targets[1].event_handler.regexes[1],
                                     <<"/", "w", "/", "f", "a", "j">>)
                        /\ targets[1].event_handler.on_any_event = ValidatorWrapper
                        /\ targets[1].self_create = None
                        /\ targets[1].self_delete = None

\* C5: the constructor of a LambdaLayerCodeTrigger raises ResourceNotFound when
\* the resource lookup or the layer lookup finds nothing, MissingCodeUri when
\* the layer is found and its codeuri is None or empty, and succeeds otherwise.
C5_LayerChecks ==
    ConstructorCalled({"LambdaLayerCodeTrigger"}) =>
        /\ raised = IF FoundResource = None THEN ResourceNotFound
                    ELSE IF FoundLayer = None THEN ResourceNotFound
                    ELSE IF Val(FoundLayer).codeuri \in {None, Some(EmptyStr)}
                         THEN MissingCodeUri
                    ELSE NoError
        /\ (trigger # None) <=> (raised = NoError)
        /\ trigger # None =>
               trigger._layer = Val(FoundLayer) /\ trigger._code_uri = Str_l

C5_Witness ==
    /\ ConstructorCalled({"LambdaLayerCodeTrigger"})
    /\ FoundResource # None /\ FoundLayer = None /\ FoundFunction # None
    /\ raised = ResourceNotFound

\* C6: a LambdaZipCodeTrigger over a resolved function fails with
\* MissingCodeUri when the function's codeuri is None or empty; otherwise its
\* code location is the codeuri as it is, and get_path_handlers() returns
\* exactly one directory target: the absolute form of the codeuri, recursive,
\* a static folder, with on_any_event, self_create and self_delete the
\* supplied callback.
C6_ZipCodeUri ==
    (ConstructorCalled({"LambdaZipCodeTrigger"})
        /\ FoundResource # None /\ FoundFunction # None) =>
        LET codeuri == Val(FoundFunction).codeuri
        IN  IF codeuri \in {None, Some(EmptyStr)}
            THEN raised = MissingCodeUri /\ trigger = None
            ELSE /\ trigger # None
                 /\ trigger._code_uri = Val(codeuri)
                 /\ targets # << >> =>
                        /\ targets = <<DirTargetOf(Val(codeuri), args.cb)>>
                        /\ Path_str(targets[1].path) = <<"/", "w", "/">> \o Val(codeuri)

C6_Witness ==
    /\ ConstructorCalled({"LambdaZipCodeTrigger"})
    /\ trigger # None
    /\ Len(targets) = 1
    /\ Val(FoundFunction).metadata = Some([DockerContext |-> Some(Str_d)])

\* C7 as claimed: a LambdaImageCodeTrigger over a resolved function fails with
\* MissingCodeUri when the function has no metadata or the metadata has no
\* DockerContext field, whatever the codeuri; otherwise its code location is
\* the DockerContext value and get_path_handlers() returns one directory target
\* there.
C7_Claimed ==
    (ConstructorCalled({"LambdaImageCodeTrigger"})
        /\ FoundResource # None /\ FoundFunction # None) =>
        LET metadata == Val(FoundFunction).metadata
        IN  IF metadata = None \/ "DockerContext" \notin DOMAIN Val(metadata)
            THEN raised = MissingCodeUri /\ trigger = None
            ELSE /\ trigger # None
                 /\ Some(trigger._code_uri) = Val(metadata).DockerContext
                 /\ targets # << >> =>
                        targets = <<DirTargetOf(Val(Val(metadata).DockerContext), args.cb)>>

\* C7: a LambdaImageCodeTrigger over a resolved function fails with
\* MissingCodeUri when the function has no metadata, when the metadata has no
\* DockerContext field and when the DockerContext value is empty, whatever the
\* codeuri; otherwise its code location is the DockerContext value, never the
\* codeuri, and get_path_handlers() returns exactly one directory target there.
C7_ImageDockerContext ==
    (ConstructorCalled({"LambdaImageCodeTrigger"})
        /\ FoundResource # None /\ FoundFunction # None) =>
        LET metadata == Val(FoundFunction).metadata
        IN  IF \/ metadata = None
               \/ "DockerContext" \notin DOMAIN Val(metadata)
               \/ Val(metadata).DockerContext \in {None, Some(EmptyStr)}
            THEN raised = MissingCodeUri /\ trigger = None
            ELSE /\ trigger # None
                 /\ Some(trigger._code_uri) = Val(metadata).DockerContext
                 /\ targets # << >> =>
                        /\ targets = <<DirTargetOf(Val(Val(metadata).DockerContext), args.cb)>>
                        /\ Path_str(targets[1].path) = <<"/", "w", "/", "d">>

C7_Witness ==
    /\ ConstructorCalled({"LambdaImageCodeTrigger"})
    /\ trigger # None
    /\ Len(targets) = 1
    /\ Val(FoundFunction).codeuri = Some(Str_s)

\* C8: the targets of a function or layer trigger carry the supplied callback
\* itself as on_any_event, self_create and self_delete, and every event,
\* creation and deletion delivered calls the callback exactly once with the
\* delivered event, with no validate() call.
C8_RawCallbackHooks ==
    (trigger # None /\ trigger.kind \in FunctionKinds \cup {"LambdaLayerCodeTrigger"}) =>
        /\ \A k \in 1..Len(targets) :
               /\ targets[k].event_handler.on_any_event = args.cb
               /\ targets[k].self_create = args.cb
               /\ targets[k].self_delete = args.cb
        /\ validateCalls = 0
        /\ \A i \in 1..Len(deliveries) : deliveries[i].valid = None
        /\ cbCalls = ForwardedOf(deliveries, args.cb, TRUE)

C8_Witness ==
    /\ trigger # None /\ trigger.kind = "LambdaLayerCodeTrigger"
    /\ Len(deliveries) = 2
    /\ deliveries[1].via = "self_delete"
    /\ deliveries[2].via = "self_create"
    /\ Len(cbCalls) = 2

\* C9: the four errors are raised by constructors only: no get_path_handlers()
\* call and no event delivery raises, whatever validate() returns; and a
\* delivery whose validation fails changes nothing but the record of the
\* validate() call: the callback is not called.
C9_ErrorsOnlyAtConstruction ==
    [][ /\ lastOp' # "__init__" => raised' = NoError
        /\ (Len(deliveries') > Len(deliveries)
              /\ deliveries'[Len(deliveries')].valid = Some(FALSE)) =>
               /\ cbCalls' = cbCalls
               /\ validateCalls' = validateCalls + 1
               /\ trigger' = trigger /\ targets' = targets
               /\ validators' = validators ]_vars

C9_Witness ==
    /\ trigger # None /\ trigger.kind = "APIGatewayCodeTrigger"
    /\ lastOp = "get_path_handlers"
    /\ Len(deliveries) = 2
    /\ deliveries[1].valid = Some(FALSE)
    /\ deliveries[2].valid = Some(TRUE)
    /\ raised = NoError

\* C10: the target that the single-file factory builds is not recursive,
\* watches the directory holding the resolved file, and its event handler
\* passes on a file event exactly when the event's path is the resolved
\* absolute path: no path one character away from it (a character changed,
\* added or removed) is passed on.
C10_ExactFileOnly ==
    handler # None =>
        LET file_path == Path_resolve(file_path_str)
        IN  /\ handler.recursive = FALSE
            /\ handler.path = Path_parent(file_path)
            /\ (probe # None /\ ~Val(probe).is_directory) =>
                   (dispatched <=> Val(probe).src_path = Path_str(file_path))

\* the kinds of trigger that watch a directory, and those that watch one file
DirKinds == FunctionKinds \cup {"LambdaLayerCodeTrigger"}
SingleFileKinds == TemplateLikeKinds

\* the match rule of a target: any entry of the tree, or one exact file
AnyInTree(t) ==
    /\ t.event_handler.class = "PatternMatchingEventHandler"
    /\ t.event_handler.patterns = << <<"*">> >>
    /\ t.event_handler.ignore_patterns = << >>
    /\ ~t.event_handler.ignore_directories
ExactFile(t) ==
    /\ t.event_handler.class = "RegexMatchingEventHandler"
    /\ Len(t.event_handler.regexes) = 1

\* p is an absolute, normalised path: no component is empty, "." or ".."
IsAbsolute(p) == \A i \in 1..Len(p) : p[i] \notin {<< >>, <<".">>, <<".", ".">>}

\* the path string q, relative (to the working directory) or absolute, names
\* the directory dir or something below it
InTree(q, dir) ==
    LET p == Path_resolve(q)
    IN  Len(dir) <= Len(p) /\ SubSeq(p, 1, Len(dir)) = dir

\* the path string q ends in a name: it is not the empty path, nor ".", nor
\* the root
NamesEntry(q) == PurePath_tail(q) # << >>

\* the target that the directory factory builds has the resolved absolute
\* directory as its path, is recursive, is a static folder and matches any
\* entry of the tree; and a target of any trigger is recursive exactly when
\* it is a directory target (built for a function or a layer, matching any
\* entry of the tree), and not recursive exactly when it is a single-file
\* target (built for a template or an API definition, matching one exact
\* file)
DirectoryTargetShape ==
    /\ (handler # None /\ lastOp = "get_dir_path_handler") =>
           /\ handler.path = Path_resolve(file_path_str)
           /\ IsAbsolute(handler.path)
           /\ handler.recursive = TRUE
           /\ handler.static_folder = TRUE
           /\ AnyInTree(handler)
    /\ \A k \in 1..Len(targets) :
           /\ targets[k].recursive <=> trigger.kind \in DirKinds
           /\ targets[k].recursive <=> AnyInTree(targets[k])
           /\ ~targets[k].recursive <=> trigger.kind \in SingleFileKinds
           /\ ~targets[k].recursive <=> ExactFile(targets[k])
           /\ targets[k].recursive => targets[k].static_folder

\* an event was sent to the handler that the directory factory built, and
\* its path, relative or absolute, lies in the tree of the directory
ProbedInTree ==
    /\ handler # None /\ lastOp = "get_dir_path_handler"
    /\ probe # None
    /\ InTree(Val(probe).src_path, Path_resolve(file_path_str))

\* C11 as claimed: the directory target has the resolved absolute path, is
\* recursive and a static folder, targets are recursive exactly when they
\* are directory targets, and the event handler passes on every event, on a
\* file or on a directory, whose path, relative or absolute, lies in the
\* tree of the directory.
C11_Claimed ==
    /\ DirectoryTargetShape
    /\ ProbedInTree => dispatched

\* C11: the directory target has the resolved absolute path, is recursive
\* and a static folder, targets are recursive exactly when they are
\* directory targets, and the event handler passes on every event, on a
\* file or on a directory, whose path, relative or absolute, lies in the
\* tree of the directory and ends in a name, on every interpreter; it
\* passes on no event whose path has no part (the empty path, and "." with
\* or without slashes after it), and passes on an event on the root "/" up
\* to Python 3.11 and not from Python 3.12.
C11_DirectoryTarget ==
    /\ DirectoryTargetShape
    /\ ProbedInTree =>
           LET q == Val(probe).src_path
           IN  /\ NamesEntry(q) => dispatched
               /\ PurePath_parts(q) = << >> => ~dispatched
               /\ (~NamesEntry(q) /\ PurePath_parts(q) # << >>) =>
                      (dispatched <=> python # "3.12")

\* the directory factory was given a relative path, and an event on a
\* sub-directory, named by a relative path, was passed on
C11_Witness ==
    /\ handler # None /\ lastOp = "get_dir_path_handler"
    /\ file_path_str = <<"a">>
    /\ handler.path = << <<"w">>, <<"a">> >>
    /\ probe # None
    /\ Val(probe).src_path = <<"a", "/", "a">>
    /\ Val(probe).is_directory
    /\ InTree(Val(probe).src_path, handler.path)
    /\ dispatched

\* C12: a constructed trigger stays as it was constructed, whatever is done
\* next; and every get_path_handlers() call, before, between or after event
\* deliveries, returns without raising exactly one target, equal (path,
\* recursive and static_folder flags, event handler, hooks) to the one the
\* call before it returned, leaves the trigger's fields, the constructor's
\* arguments (stacks and callback) and the validator alone, and calls
\* neither validate() nor the callback.
C12_ResolveIdempotent ==
    [][ /\ trigger # None => (trigger' = trigger /\ args' = args)
        /\ lastOp' = "get_path_handlers" =>
               /\ raised' = NoError
               /\ Len(targets') = 1
               /\ targets # << >> => targets' = targets
               /\ trigger' = trigger /\ args' = args
               /\ calls' = calls /\ validators' = validators
               /\ validateCalls' = validateCalls /\ cbCalls' = cbCalls
               /\ deliveries' = deliveries ]_vars

\* get_path_handlers() has just returned to an API trigger that had already
\* been sent events through the target of an earlier call, one of which the
\* validator accepted
C12_Witness ==
    /\ trigger # None /\ trigger.kind = "APIGatewayCodeTrigger"
    /\ lastOp = "get_path_handlers"
    /\ Len(targets) = 1
    /\ Len(deliveries) = MaxEvents
    /\ validateCalls = MaxEvents
    /\ Len(cbCalls) = 1

\* the file that the validator of a template-like trigger is bound to
ValidatedFile(self) ==
    IF self.kind = "TemplateTrigger" THEN self._template_file ELSE self._definition_file

\* the validators that exist are those of the trigger: one, bound to the
\* trigger's file and held in _validator, for a template-like trigger, and
\* none for any other trigger or while there is no trigger
ValidatorOfTrigger ==
    /\ (trigger # None /\ trigger.kind \in TemplateLikeKinds) =>
           /\ validators = <<trigger._validator>>
           /\ trigger._validator = DefinitionValidator(ValidatedFile(trigger))
           /\ calls # << >> /\ calls[Len(calls)] = "DefinitionValidator"
           /\ \A i \in 1..(Len(calls) - 1) : calls[i] # "DefinitionValidator"
    /\ (trigger = None \/ trigger.kind \notin TemplateLikeKinds) =>
           /\ validators = << >>
           /\ \A i \in 1..Len(calls) : calls[i] # "DefinitionValidator"

\* C13 as claimed: the validator is created lazily: between the successful
\* construction of a template-like trigger and its first get_path_handlers()
\* call or event, no validator has been created.
C13_Claimed ==
    (trigger # None /\ trigger.kind \in TemplateLikeKinds /\ lastOp = "__init__") =>
        validators = << >>

\* C13: a trigger's fields do not change once it is constructed, and the one
\* validator of a template-like trigger is created by the constructor, as its
\* last step: from the moment construction succeeds, before any
\* get_path_handlers() call or event, exactly one validator exists, bound to
\* the trigger's template or definition file; no call or event creates
\* another one or replaces it; and no validator is created for a trigger of
\* another kind or by a constructor that raises.
C13_ValidatorBuiltAtConstruction ==
    [][ /\ ValidatorOfTrigger'
        /\ trigger # None => (trigger' = trigger /\ validators' = validators) ]_vars

\* a TemplateTrigger has just been constructed: nothing was asked of it and
\* no event was sent, and its validator exists
C13_Witness ==
    /\ trigger # None /\ trigger.kind = "TemplateTrigger"
    /\ lastOp = "__init__"
    /\ targets = << >> /\ deliveries = << >> /\ validateCalls = 0
    /\ validators = <<DefinitionValidator(trigger._template_file)>>

=============================================================================
